---- MODULE Spec2Model ----
(***************************************************************************)
(* Verification model of the coordinating parts of the Node.js             *)
(* internals lab:                                                          *)
(*   - WorkerThreadManager's worker pool (core/worker-thread-manager.js,   *)
(*     workers/pool-worker.js);                                            *)
(*   - EventLoopMonitor's lag monitor (core/event-loop-monitor.js);        *)
(*   - the shared-memory demo and its one-shot workers (runInWorker,       *)
(*     workers/cpu-worker.js);                                             *)
(*   - EventLoopMonitor's interruptible loop (infiniteLoop) and readline;   *)
(*   - runWithWorkerPool of experiments/worker-threads.js.                 *)
(* Every action is one callback of the main thread's event loop (run to    *)
(* completion), one message handler of a worker thread, or one event of    *)
(* the environment (a worker dying, the user typing a line).               *)
(***************************************************************************)
EXTENDS Integers, Sequences, FiniteSets, TLC

VARIABLES
    \* ---- WorkerThreadManager ----
    workerPool,     \* this.workerPool: sequence of [worker, busy, id]
    units,          \* every Worker ever created: [alive, inbox, outbox, listeners]
    callState,      \* the promise of processTasksWithPool: "none", "running", "resolved"
    tasks,          \* the tasks argument of the call in flight
    pendingTasks,   \* const pendingTasks = [...tasks]
    results,        \* const results = new Array(tasks.length)
    pollTimers,     \* number of armed setTimeout(processNextTask, 10)
    writeLog,       \* history: the indices of results written, in order
    dispatchLog,    \* history: the tasks posted to workers, in order
    poolExit,       \* history: how the latest pool run left: "none" (a pool is in use),
                    \* "cleaned" (cleanupWorkerPool ran), "initThrew" (new Worker threw)
    \* ---- EventLoopMonitor ----
    monitoring,     \* this.monitoring
    startTime,      \* this.startTime
    lastCheck,      \* this.lastCheck
    lagHistory,     \* this.lagHistory
    now,            \* performance.now(), in ms
    tickTimers,     \* due times of the armed setTimeout(() => this.monitorEventLoop(), 1000)
    stopTimer,      \* due time of waitForStop's setTimeout(..., 30000), or NoTimer
    intervals,      \* number of armed setInterval of startBackgroundTasks
    mpc,            \* where startMonitoring is: "idle", "waiting", "resolved"
    sessions,       \* history: number of startMonitoring calls so far
    allLags,        \* history: every lag monitorEventLoop computed, in tick order
    report,         \* what the latest tick printed: [lag, sum, count, min, max]
    lateLeft,       \* how many more timer callbacks run while the event loop is loaded
    typedStop,      \* the user typed "stop" during the session in progress
    \* ---- shared memory demo and runInWorker ----
    sharedArray,    \* the Int32Array over the SharedArrayBuffer, 0-based in the source
    initialArray,   \* history: sharedArray as sharedMemoryDemo handed it over
    demo,           \* the operation in progress: [kind, phase, operation]
    calls,          \* one record per runInWorker call: the Worker, its thread, its promise
    storeLog,       \* history: the <<index, value>> pairs given to Atomics.store
    accessLog,      \* history: <<call, index>> for every element a
                    \* shared-memory-process worker has read and written
    \* ---- EventLoopMonitor.infiniteLoop and readline ----
    ilpc,           \* where demonstrateBlocking is: "menu", "yielded" (infiniteLoop
                    \* awaits setImmediate), "returned" (at 'Press Enter to continue')
    shouldStop,     \* let shouldStop of the infiniteLoop call in progress
    autoExitTimer,  \* "none", "armed", "fired", "cleared"
    elapsed,        \* chunks run by the call in progress (time, in chunks)
    rlQuestion,     \* who owns readline's pending question: "none", "menu",
                    \* "checkUserInput", "continue"
    continuePrompt, \* the 'Press Enter' question: "none", "pending", "dropped"
    chunksAfterStop,\* history: chunks started after shouldStop was set
    rounds,         \* history: infiniteLoop calls so far
    \* ---- experiments/worker-threads.js: runWithWorkerPool ----
    rwState,        \* the call: "none", "running" (awaits Promise.all), "returned"
    rwTasks,        \* its tasks argument
    taskIndex,      \* let taskIndex
    rwResults,      \* const results (after the return: as sorted)
    rwWorkers,      \* const workers: [inbox, outbox, terminated, resolved] per Worker
    rwPosted        \* history: the ids of the tasks posted to workers, in order

poolVars == <<workerPool, units, callState, tasks, pendingTasks, results, pollTimers, writeLog, dispatchLog,
              poolExit>>
monVars  == <<monitoring, startTime, lastCheck, lagHistory, now, tickTimers, stopTimer,
              intervals, mpc, sessions, allLags, report, lateLeft, typedStop>>
shVars   == <<sharedArray, initialArray, demo, calls, storeLog, accessLog>>
ilVars   == <<ilpc, shouldStop, autoExitTimer, elapsed, rlQuestion, continuePrompt,
              chunksAfterStop, rounds>>
rwVars   == <<rwState, rwTasks, taskIndex, rwResults, rwWorkers, rwPosted>>
vars     == <<poolVars, monVars, shVars, ilVars, rwVars>>

\* what the actions of one part leave alone
notPool   == <<monVars, shVars, ilVars, rwVars>>
notMon    == <<poolVars, shVars, ilVars, rwVars>>
notShared == <<poolVars, monVars, ilVars, rwVars>>
notLoop   == <<poolVars, monVars, shVars, rwVars>>
notRun    == <<poolVars, monVars, shVars, ilVars>>

----------------------------------------------------------------------------
(* Bounds of the model *)

MaxUnits == 2        \* Workers created over the manager's life
MaxSize == 2         \* the size given to one initializeWorkerPool call
MaxTasks == 3        \* tasks in one batch; their ids are drawn from 0..MaxTasks-1
MaxSessions == 3     \* startMonitoring calls over the monitor's life
LoadedCallbacks == 2 \* the event loop is loaded while it runs its first LoadedCallbacks
                     \* timer callbacks: each of them may run late
LateBy == 7          \* by how many ms a late callback is late
MaxLen == 3          \* elements of the shared buffer
MaxWorkers == 2      \* workers of one parallelProcessing or concurrentUpdates
MaxUpdLen == 2       \* elements of a buffer given to concurrentUpdates
MaxUpdates == 2      \* the updateCount of one concurrentUpdates, over all its workers
MaxRunWorkers == 3   \* the numWorkers of one runWithWorkerPool call
MaxRounds == 3       \* infiniteLoop calls over the monitor's life
ChunksToTimeout == 8 \* chunks of 1,000,000 iterations that fit into maxDuration

----------------------------------------------------------------------------
(* Small helpers *)

Min(a, b) == IF a < b THEN a ELSE b
Max(a, b) == IF a > b THEN a ELSE b
Range(s) == {s[i] : i \in DOMAIN s}

\* a hole of a JavaScript array (new Array(n) holds n of them)
Empty == [kind |-> "empty"]

\* new Array(n)
NewArray(n) == [i \in 1..n |-> Empty]

\* arr[idx] = v on a JavaScript array (idx is 0-based): writing past the end
\* grows the array and leaves holes
ArraySet(arr, idx, v) ==
    [i \in 1..Max(Len(arr), idx + 1) |->
        IF i = idx + 1 THEN v ELSE IF i <= Len(arr) THEN arr[i] ELSE Empty]

----------------------------------------------------------------------------
(* workers/pool-worker.js *)

\* the values Math.random() contributes to a result
RandomDraws == {0, 1}

TaskTypes == {"cpu-intensive", "unknown"}

\* the number computed for a complexity; rnd stands for the Math.random() terms
performCPUIntensiveWork(complexity, rnd) ==
    [kind |-> "number", complexity |-> complexity, rnd |-> rnd]

\* processTask: returns for 'cpu-intensive', throws for any other type
processTask(task, rnd) ==
    IF task.type = "cpu-intensive"
    THEN [threw |-> FALSE, value |-> performCPUIntensiveWork(task.complexity, rnd)]
    ELSE [threw |-> TRUE, message |-> task.type]

\* what parentPort.on('message') posts back for a task: the result, or
\* { error: error.message } from its catch block
WorkerReply(task, rnd) ==
    LET r == processTask(task, rnd)
    IN  IF r.threw THEN [kind |-> "error", error |-> r.message] ELSE r.value

----------------------------------------------------------------------------
(* WorkerThreadManager: the pool *)

NewUnit == [alive |-> TRUE, inbox |-> <<>>, outbox |-> <<>>, listeners |-> <<>>]

\* the batches a caller may submit: ids unique within the batch, the payload
\* (complexity) differs from task to task
TaskLists ==
    UNION {
        { [k \in 1..n |-> [id |-> ids[k], complexity |-> k, type |-> tys[k]]] :
            ids \in {f \in [1..n -> 0..(MaxTasks - 1)] :
                        \A a, b \in 1..n : a # b => f[a] # f[b]},
            tys \in [1..n -> TaskTypes] }
        : n \in 0..MaxTasks }

\* the part of the state processNextTask and its closures work on
PoolState ==
    [workerPool |-> workerPool, units |-> units, callState |-> callState,
     pendingTasks |-> pendingTasks, results |-> results,
     pollTimers |-> pollTimers, writeLog |-> writeLog,
     dispatchLog |-> dispatchLog]

Commit(S) ==
    /\ workerPool' = S.workerPool
    /\ units' = S.units
    /\ callState' = S.callState
    /\ pendingTasks' = S.pendingTasks
    /\ results' = S.results
    /\ pollTimers' = S.pollTimers
    /\ writeLog' = S.writeLog
    /\ dispatchLog' = S.dispatchLog

\* this.workerPool.find(w => !w.busy): the index of the first idle entry, 0 for undefined
FindAvailable(pool) ==
    IF \E i \in 1..Len(pool) : ~pool[i].busy
    THEN CHOOSE i \in 1..Len(pool) :
            ~pool[i].busy /\ \A j \in 1..(i - 1) : pool[j].busy
    ELSE 0

\* resolve(results): settles the promise the first time only
Resolve(S) ==
    IF S.callState = "running" THEN [S EXCEPT !.callState = "resolved"] ELSE S

\* worker.postMessage(msg): queued for a live worker, dropped otherwise
PostToWorker(us, h, msg) ==
    IF us[h].alive THEN [us EXCEPT ![h].inbox = Append(@, msg)] ELSE us

\* Dispatch that forgets availableWorker.busy = true
DispatchLeavesIdle(S, w) ==
    LET task == Head(S.pendingTasks)
        h == S.workerPool[w].worker
        posted == PostToWorker(S.units, h, task)
    IN  [S EXCEPT !.pendingTasks = Tail(@),
                  !.dispatchLog = Append(@, task),
                  !.units = [posted EXCEPT ![h].listeners =
                                Append(@, [task |-> task, availableWorker |-> w])]]

\* Dispatch that takes the newest pending task (pop for shift)
DispatchNewestFirst(S, w) ==
    LET task == S.pendingTasks[Len(S.pendingTasks)]
        h == S.workerPool[w].worker
        posted == PostToWorker(S.units, h, task)
    IN  [S EXCEPT !.pendingTasks = SubSeq(@, 1, Len(@) - 1),
                  !.dispatchLog = Append(@, task),
                  !.workerPool[w].busy = TRUE,
                  !.units = [posted EXCEPT ![h].listeners =
                                Append(@, [task |-> task, availableWorker |-> w])]]

\* lines 892-904: shift the next task, mark the worker busy, post the task and
\* register the one-shot listener (the closure keeps task and availableWorker)
Dispatch(S, w) ==
    LET task == Head(S.pendingTasks)
        h == S.workerPool[w].worker
        posted == PostToWorker(S.units, h, task)
    IN  [S EXCEPT !.pendingTasks = Tail(@),
                  !.dispatchLog = Append(@, task),
                  !.workerPool[w].busy = TRUE,
                  !.units = [posted EXCEPT ![h].listeners =
                                Append(@, [task |-> task, availableWorker |-> w])]]

\* processNextTask that goes on dispatching until no worker is idle
RECURSIVE ProcessNextTaskEager(_)
ProcessNextTaskEager(S) ==
    IF S.pendingTasks = <<>>
    THEN Resolve(S)
    ELSE LET w == FindAvailable(S.workerPool)
         IN  IF w = 0
             THEN [S EXCEPT !.pollTimers = @ + 1]
             ELSE ProcessNextTaskEager(Dispatch(S, w))

\* processNextTask (lines 878-905)
ProcessNextTask(S) ==
    IF S.pendingTasks = <<>>
    THEN Resolve(S)
    ELSE LET w == FindAvailable(S.workerPool)
         IN  IF w = 0
             THEN [S EXCEPT !.pollTimers = @ + 1]
             ELSE Dispatch(S, w)

\* the index of the first hole of a JavaScript array (its length when it has none)
FirstHole(arr) ==
    IF \E i \in 1..Len(arr) : arr[i] = Empty
    THEN (CHOOSE i \in 1..Len(arr) : arr[i] = Empty /\ \A j \in 1..(i - 1) : arr[j] # Empty) - 1
    ELSE Len(arr)

\* results filled in completion order instead of by task id
RecordResultInCompletionOrder(res, task, result) == ArraySet(res, FirstHole(res), result)

\* results[task.id] = result
RecordResult(res, task, result) == ArraySet(res, task.id, result)

\* the listener of line 900, run for one message
OnResult(S, l, result) ==
    ProcessNextTask(
        [S EXCEPT !.results = RecordResult(@, l.task, result),
                  !.writeLog = Append(@, l.task.id),
                  !.workerPool[l.availableWorker].busy = FALSE])

\* emit('message', result): the listeners registered before the emit, in order
RECURSIVE RunListeners(_, _, _)
RunListeners(S, ls, result) ==
    IF ls = <<>> THEN S
    ELSE RunListeners(OnResult(S, Head(ls), result), Tail(ls), result)

\* constructor (lines 425-430): no pool, no Worker yet; no call in flight
InitPool ==
    /\ workerPool = <<>>
    /\ units = <<>>
    /\ callState = "none"
    /\ tasks = <<>>
    /\ pendingTasks = <<>>
    /\ results = <<>>
    /\ pollTimers = 0
    /\ writeLog = <<>>
    /\ dispatchLog = <<>>
    /\ poolExit = "none"

\* initializeWorkerPool(size): size new Workers pushed onto this.workerPool
InitializeWorkerPool(size) ==
    /\ callState = "none"
    /\ Len(units) + size <= MaxUnits
    /\ units' = units \o [i \in 1..size |-> NewUnit]
    /\ workerPool' = workerPool \o
           [i \in 1..size |-> [worker |-> Len(units) + i, busy |-> FALSE, id |-> i - 1]]
    /\ poolExit' = "none"
    /\ UNCHANGED <<callState, tasks, pendingTasks, results, pollTimers, writeLog, dispatchLog>>
    /\ UNCHANGED notPool

\* initializeWorkerPool(size) when new Worker (line 859) throws in iteration
\* created < size: the units pushed so far stay in this.workerPool, and the
\* exception leaves workerPoolTask at line 582, before its try (line 597)
InitializeWorkerPoolThrows(size, created) ==
    /\ callState = "none"
    /\ created < size
    /\ Len(units) + created <= MaxUnits
    /\ units' = units \o [i \in 1..created |-> NewUnit]
    /\ workerPool' = workerPool \o
           [i \in 1..created |-> [worker |-> Len(units) + i, busy |-> FALSE, id |-> i - 1]]
    /\ poolExit' = "initThrew"
    /\ UNCHANGED <<callState, tasks, pendingTasks, results, pollTimers, writeLog, dispatchLog>>
    /\ UNCHANGED notPool

\* cleanupWorkerPool(): terminate every pooled Worker, then this.workerPool = []
CleanupWorkerPool ==
    /\ callState = "none"
    /\ units' = [h \in 1..Len(units) |->
                    IF \E i \in 1..Len(workerPool) : workerPool[i].worker = h
                    THEN [units[h] EXCEPT !.alive = FALSE, !.inbox = <<>>, !.outbox = <<>>]
                    ELSE units[h]]
    /\ workerPool' = <<>>
    /\ poolExit' = "cleaned"
    /\ UNCHANGED <<callState, tasks, pendingTasks, results, pollTimers, writeLog, dispatchLog>>
    /\ UNCHANGED notPool

\* processTasksWithPool(tasks): lines 874-875, then the promise executor's
\* first processNextTask() (line 908)
ProcessTasksWithPool(ts) ==
    /\ callState = "none"
    /\ tasks' = ts
    /\ Commit(ProcessNextTask(
           [PoolState EXCEPT !.callState = "running",
                             !.results = NewArray(Len(ts)),
                             !.pendingTasks = ts,
                             !.writeLog = <<>>,
                             !.dispatchLog = <<>>]))
    /\ UNCHANGED poolExit
    /\ UNCHANGED notPool

\* setTimeout(processNextTask, 10) fires
PollFire ==
    /\ pollTimers > 0
    /\ Commit(ProcessNextTask([PoolState EXCEPT !.pollTimers = @ - 1]))
    /\ UNCHANGED <<tasks, poolExit>>
    /\ UNCHANGED notPool

\* pool-worker.js, parentPort.on('message'): the worker thread takes the next
\* posted task, processes it and posts its reply
WorkerOnMessage(h, rnd) ==
    /\ units[h].alive
    /\ units[h].inbox # <<>>
    /\ units' = [units EXCEPT ![h].inbox = Tail(@),
                              ![h].outbox = Append(@, WorkerReply(Head(units[h].inbox), rnd))]
    /\ UNCHANGED <<workerPool, callState, tasks, pendingTasks, results, pollTimers,
                   writeLog, dispatchLog,
                   poolExit>>
    /\ UNCHANGED notPool

\* the worker thread dies while it holds a task (out of memory, a fatal error
\* of the thread); initializeWorkerPool registers no 'error' or 'exit' listener
WorkerCrash(h) ==
    /\ units[h].alive
    /\ units[h].inbox # <<>>
    /\ units' = [units EXCEPT ![h].alive = FALSE]
    /\ UNCHANGED <<workerPool, callState, tasks, pendingTasks, results, pollTimers,
                   writeLog, dispatchLog,
                   poolExit>>
    /\ UNCHANGED notPool

\* the main thread receives a worker's message: the 'message' listeners
\* registered with once() are removed and run
MainOnMessage(h) ==
    /\ units[h].alive
    /\ units[h].outbox # <<>>
    /\ Commit(RunListeners(
           [PoolState EXCEPT !.units[h].outbox = Tail(@), !.units[h].listeners = <<>>],
           units[h].listeners,
           Head(units[h].outbox)))
    /\ UNCHANGED <<tasks, poolExit>>
    /\ UNCHANGED notPool

\* workerPoolTask, line 598: the await of the resolved promise continues; the
\* locals of the finished call are gone
AwaitReturn ==
    /\ callState = "resolved"
    /\ callState' = "none"
    /\ tasks' = <<>>
    /\ pendingTasks' = <<>>
    /\ results' = <<>>
    /\ writeLog' = <<>>
    /\ dispatchLog' = <<>>
    /\ UNCHANGED <<workerPool, units, pollTimers, poolExit>>
    /\ UNCHANGED notPool

----------------------------------------------------------------------------
(* EventLoopMonitor *)

TickExpected == 16       \* const expectedTime = this.lastCheck + 16
TickInterval == 1000     \* setTimeout(() => this.monitorEventLoop(), 1000)
MaxDuration == 30000     \* waitForStop's setTimeout(..., 30000)
HistoryCap == 100        \* if (this.lagHistory.length > 100) this.lagHistory.shift()
IntervalsPerSession == 2 \* startBackgroundTasks arms two setInterval

NoTimer == -1

InputLines == {"stop", "status"}

\* the part of the monitor monitorEventLoop works on
MonState ==
    [monitoring |-> monitoring, lastCheck |-> lastCheck, lagHistory |-> lagHistory,
     tickTimers |-> tickTimers, allLags |-> allLags,
     report |-> report]

CommitMon(M) ==
    /\ monitoring' = M.monitoring
    /\ lastCheck' = M.lastCheck
    /\ lagHistory' = M.lagHistory
    /\ tickTimers' = M.tickTimers
    /\ allLags' = M.allLags
    /\ report' = M.report

\* a window that drops the newest sample instead of the oldest (pop for shift)
PushLagDropsNewest(hist, lag) ==
    LET pushed == Append(hist, lag)
    IN  IF Len(pushed) > HistoryCap THEN SubSeq(pushed, 1, HistoryCap) ELSE pushed

\* lines 45-48: push, then shift when longer than 100
PushLag(hist, lag) ==
    LET pushed == Append(hist, lag)
    IN  IF Len(pushed) > HistoryCap THEN Tail(pushed) ELSE pushed

\* the statistics of lines 51-53 (avgLag as the pair sum, count)
SumSeq(s) ==
    LET acc[i \in 0..Len(s)] == IF i = 0 THEN 0 ELSE acc[i - 1] + s[i]
    IN  acc[Len(s)]
MaxLag(hist) == LET lags == Range(hist) IN CHOOSE x \in lags : \A y \in lags : y <= x
MinLag(hist) == LET lags == Range(hist) IN CHOOSE x \in lags : \A y \in lags : x <= y

\* nothing printed yet
NoReport == [lag |-> 0, sum |-> 0, count |-> 0, min |-> 0, max |-> 0]

\* statistics taken over the window without its newest sample
StatisticsBeforePush(hist, actualLag) ==
    LET old == IF Len(hist) > 1 THEN SubSeq(hist, 1, Len(hist) - 1) ELSE hist
    IN  [lag |-> actualLag, sum |-> SumSeq(old), count |-> Len(old),
         min |-> MinLag(old), max |-> MaxLag(old)]

\* lines 51-62: what the tick prints, computed from the trimmed window
Statistics(hist, actualLag) ==
    [lag |-> actualLag, sum |-> SumSeq(hist), count |-> Len(hist),
     min |-> MinLag(hist), max |-> MaxLag(hist)]

\* monitorEventLoop() run at time t (window is bound by the set constructor,
\* so the pushed and trimmed history is computed once per tick)
MonitorEventLoop(M, t) ==
    IF ~M.monitoring THEN M
    ELSE LET actualLag == t - (M.lastCheck + TickExpected)
         IN  CHOOSE ticked \in
                 {[M EXCEPT !.lagHistory = window,
                            !.allLags = Append(@, actualLag),
                            !.report = Statistics(window, actualLag),
                            !.lastCheck = t,
                            !.tickTimers = Append(@, t + TickInterval)] :
                      window \in {PushLag(M.lagHistory, actualLag)}} : TRUE

\* the due times of every armed timer
ArmedDues == Range(tickTimers) \cup (IF stopTimer = NoTimer THEN {} ELSE {stopTimer})

\* the event loop runs the timer that is due first
DueFirst(due) == \A d \in ArmedDues : due <= d

\* how late after its due time a timer callback may run
Lateness == {0} \cup (IF lateLeft > 0 THEN {LateBy} ELSE {})

RemoveAt(s, k) == SubSeq(s, 1, k - 1) \o SubSeq(s, k + 1, Len(s))

\* constructor (lines 6-12); the clock starts at 0
InitMon ==
    /\ monitoring = FALSE
    /\ startTime = 0
    /\ lastCheck = 0
    /\ lagHistory = <<>>
    /\ now = 0
    /\ tickTimers = <<>>
    /\ stopTimer = NoTimer
    /\ intervals = 0
    /\ mpc = "idle"
    /\ sessions = 0
    /\ allLags = <<>>
    /\ report = NoReport
    /\ lateLeft = LoadedCallbacks
    /\ typedStop = FALSE

\* startMonitoring() up to its await: lines 20-31, with the synchronous first
\* monitorEventLoop(), startBackgroundTasks() and the timer of waitForStop()
StartMonitoring ==
    /\ mpc = "idle"
    /\ sessions < MaxSessions
    /\ startTime' = now
    /\ CommitMon(MonitorEventLoop(
           [MonState EXCEPT !.monitoring = TRUE, !.lastCheck = now], now))
    /\ intervals' = intervals + IntervalsPerSession
    /\ stopTimer' = now + MaxDuration
    /\ mpc' = "waiting"
    /\ sessions' = sessions + 1
    /\ typedStop' = FALSE
    /\ UNCHANGED <<now, lateLeft>>
    /\ UNCHANGED notMon

\* an armed tick timer fires: monitorEventLoop()
TickFire(k, late) ==
    /\ mpc # "resolved"
    /\ k \in DOMAIN tickTimers
    /\ DueFirst(tickTimers[k])
    /\ late \in Lateness
    /\ now' = Max(now, tickTimers[k]) + late
    /\ lateLeft' = Max(0, lateLeft - 1)
    /\ CommitMon(MonitorEventLoop(
           [MonState EXCEPT !.tickTimers = RemoveAt(@, k)],
           Max(now, tickTimers[k]) + late))
    /\ UNCHANGED <<startTime, stopTimer, intervals, mpc, sessions, typedStop>>
    /\ UNCHANGED notMon

\* a timeout callback that resolves without clearing this.monitoring
StopTimeoutOnlyResolves(late) ==
    /\ mpc # "resolved"
    /\ stopTimer # NoTimer
    /\ DueFirst(stopTimer)
    /\ late \in Lateness
    /\ now' = Max(now, stopTimer) + late
    /\ lateLeft' = Max(0, lateLeft - 1)
    /\ stopTimer' = NoTimer
    /\ IF monitoring
       THEN mpc' = "resolved" /\ UNCHANGED monitoring
       ELSE UNCHANGED <<monitoring, mpc>>
    /\ UNCHANGED <<startTime, lastCheck, lagHistory, tickTimers, intervals, sessions,
                   allLags, report, typedStop>>
    /\ UNCHANGED notMon

\* a timeout callback that clears this.monitoring and forgets resolve()
StopTimeoutForgetsResolve(late) ==
    /\ mpc # "resolved"
    /\ stopTimer # NoTimer
    /\ DueFirst(stopTimer)
    /\ late \in Lateness
    /\ now' = Max(now, stopTimer) + late
    /\ lateLeft' = Max(0, lateLeft - 1)
    /\ stopTimer' = NoTimer
    /\ monitoring' = FALSE
    /\ UNCHANGED mpc
    /\ UNCHANGED <<startTime, lastCheck, lagHistory, tickTimers, intervals, sessions,
                   allLags, report, typedStop>>
    /\ UNCHANGED notMon

\* the callback of waitForStop's timer (lines 326-332)
StopTimeout(late) ==
    /\ mpc # "resolved"
    /\ stopTimer # NoTimer
    /\ DueFirst(stopTimer)
    /\ late \in Lateness
    /\ now' = Max(now, stopTimer) + late
    /\ lateLeft' = Max(0, lateLeft - 1)
    /\ stopTimer' = NoTimer
    /\ IF monitoring
       THEN monitoring' = FALSE /\ mpc' = "resolved"
       ELSE UNCHANGED <<monitoring, mpc>>
    /\ UNCHANGED <<startTime, lastCheck, lagHistory, tickTimers, intervals, sessions,
                   allLags, report, typedStop>>
    /\ UNCHANGED notMon

\* startMonitoring() after its await (lines 33-35)
StartMonitoringReturn ==
    /\ mpc = "resolved"
    /\ monitoring' = FALSE
    /\ mpc' = "idle"
    /\ UNCHANGED <<startTime, lastCheck, lagHistory, now, tickTimers, stopTimer,
                   intervals, sessions, allLags, report, lateLeft, typedStop>>
    /\ UNCHANGED notMon

\* the user enters a line while startMonitoring waits: readline has no
\* question pending and the monitor registers no 'line' listener
UserTypes(line) ==
    /\ mpc = "waiting"
    /\ typedStop' = (typedStop \/ line = "stop")
    /\ UNCHANGED <<monitoring, startTime, lastCheck, lagHistory, now, tickTimers,
                   stopTimer, intervals, mpc, sessions, allLags, report, lateLeft>>
    /\ UNCHANGED notMon

----------------------------------------------------------------------------
(* Shared memory demo: Int32Array arithmetic *)

MaxInt32 == 2147483647
MinInt32 == -MaxInt32 - 1

\* a + b as an Int32Array element keeps it: modulo 2^32, in MinInt32..MaxInt32
AddInt32(a, b) ==
    IF a > 0 /\ b > MaxInt32 - a THEN (a + MinInt32) + (b + MinInt32)
    ELSE IF a < 0 /\ b < MinInt32 - a THEN (a - MinInt32) + (b - MinInt32)
    ELSE a + b

\* a * b for b >= 0 as an Int32Array element keeps it (the product is exact
\* in a double below 2^53, and the store keeps its low 32 bits)
RECURSIVE MulInt32(_, _)
MulInt32(a, b) ==
    IF b = 0 THEN 0
    ELSE LET half == MulInt32(AddInt32(a, a), b \div 2)
         IN  IF b % 2 = 1 THEN AddInt32(half, a) ELSE half

Abs(v) == IF v < 0 THEN -v ELSE v

\* the largest r in lo..hi with r * r <= v
RECURSIVE RootBetween(_, _, _)
RootBetween(v, lo, hi) ==
    IF lo >= hi THEN lo
    ELSE LET mid == (lo + hi + 1) \div 2
         IN  IF mid * mid <= v THEN RootBetween(v, mid, hi) ELSE RootBetween(v, lo, mid - 1)

\* the largest integer whose square an Int32Array element can hold
MaxRoot == 46340

\* Math.sqrt(v) stored into an Int32Array: truncated, and NaN becomes 0
SqrtInt32(v) == IF v < 0 THEN 0 ELSE RootBetween(v, 0, MaxRoot)

----------------------------------------------------------------------------
(* workers/cpu-worker.js *)

KnownTypes == {"cpu-intensive", "shared-memory-process", "shared-memory-update"}
SupportedOperations == {"square", "sqrt", "increment"}

\* the operations a caller may name; "cube" is one the worker does not know
Operations == SupportedOperations \cup {"cube"}

\* processSharedMemory's switch: the value stored back at one index
ApplyOperation(operation, v) ==
    CASE operation = "square"    -> MulInt32(Abs(v), Abs(v))
      [] operation = "sqrt"      -> SqrtInt32(v)
      [] operation = "increment" -> AddInt32(v, 1)

\* the variant of AtomicsStore whose write lands on the neighbouring element
AtomicsStoreNeighbour(arr, randomIndex, randomValue) ==
    [arr EXCEPT ![((randomIndex + 1) % Len(arr)) + 1] = randomValue]

\* Atomics.store(sharedArray, randomIndex, randomValue), randomIndex 0-based
AtomicsStore(arr, randomIndex, randomValue) ==
    [arr EXCEPT ![randomIndex + 1] = randomValue]

\* Math.floor(Math.random() * 1000): the draws the model follows
RandomValues == {998, 999}

\* what the Worker's listeners receive
NoValue == [ev |-> "none", failed |-> FALSE, count |-> 0, code |-> 0]
Message(failed, count) == [ev |-> "message", failed |-> failed, count |-> count, code |-> 0]
ErrorEvent == [ev |-> "error", failed |-> TRUE, count |-> 0, code |-> 0]
ExitEvent(code) == [ev |-> "exit", failed |-> FALSE, count |-> 0, code |-> code]

\* the statement the worker is at raises: an unknown task type, an unknown
\* operation (the default of processSharedMemory's switch, whatever the
\* range), or an Atomics.store into an array of length 0
WorkerRaises(c) ==
    \/ c.data.type \notin KnownTypes
    \/ /\ c.data.type = "shared-memory-process"
       /\ c.data.operation \notin SupportedOperations
    \/ /\ c.data.type = "shared-memory-update"
       /\ c.pos < c.data.updateCount
       /\ Len(sharedArray) = 0

\* the loop of processSharedMemory or updateSharedMemory has run to its end
LoopDone(c) ==
    \/ c.data.type = "shared-memory-process" /\ c.pos >= c.data.endIndex
    \/ c.data.type = "shared-memory-update" /\ c.pos >= c.data.updateCount

\* processedCount or updatesPerformed, as returned
Performed(c) ==
    IF c.data.type = "shared-memory-process"
    THEN Max(0, c.data.endIndex - c.data.startIndex)
    ELSE c.pos

----------------------------------------------------------------------------
(* WorkerThreadManager: runInWorker, parallelProcessing, concurrentUpdates *)

\* the smallest index of the demo's buffer whose square exceeds MaxInt32
Overflowing == MaxRoot + 1

\* the buffers handed to the demo: every element holds its own index, as
\* sharedMemoryDemo fills it, or stands for an element far into the buffer
SharedArrays ==
    UNION {{arr \in [1..len -> (0..(len - 1)) \cup {Overflowing}] :
                \A i \in 1..len : arr[i] \in {i - 1, Overflowing}} : len \in 0..MaxLen}

\* const chunkSize = Math.floor(bufferSize / workerCount)
ChunkSize(bufferSize, workerCount) == bufferSize \div workerCount

\* the variant of StartIndex whose ranges reach one element back into the
\* range before
StartIndexOneBack(i, bufferSize, workerCount) ==
    Max(0, i * ChunkSize(bufferSize, workerCount) - 1)

StartIndex(i, bufferSize, workerCount) == i * ChunkSize(bufferSize, workerCount)

\* the variant of EndIndex that gives the last range no remainder
EndIndexNoRemainder(i, bufferSize, workerCount) ==
    (i + 1) * ChunkSize(bufferSize, workerCount)

EndIndex(i, bufferSize, workerCount) ==
    IF i = workerCount - 1 THEN bufferSize
    ELSE (i + 1) * ChunkSize(bufferSize, workerCount)

NoExit == -1

\* runInWorker(data): the new Worker starts its thread on cpu-worker.js; the
\* promise is pending
NewCall(data) ==
    [data       |-> data,
     wpc        |-> "running",  \* the thread: "running", "posted", "exited"
     pos        |-> IF data.type = "shared-memory-process" THEN data.startIndex ELSE 0,
     events     |-> <<>>,       \* events of the Worker not yet delivered to the main thread
     promise    |-> "pending",  \* "pending", "resolved", "rejected"
     value      |-> NoValue,    \* what it settled with
     terminated |-> 0,          \* worker.terminate() calls
     exitSeen   |-> NoExit]     \* history: the code the 'exit' listener received

ProcessData(i, bufferSize, workerCount, operation) ==
    [type        |-> "shared-memory-process",
     startIndex  |-> StartIndex(i, bufferSize, workerCount),
     endIndex    |-> EndIndex(i, bufferSize, workerCount),
     operation   |-> operation,
     updateCount |-> 0,
     workerId    |-> i]

UpdateData(i, updateCount, workerCount) ==
    [type        |-> "shared-memory-update",
     startIndex  |-> 0,
     endIndex    |-> 0,
     operation   |-> "none",
     updateCount |-> updateCount \div workerCount,
     workerId    |-> i]

\* the variant of Settle in which the latest call wins
SettleAgain(c, outcome, v) == [c EXCEPT !.promise = outcome, !.value = v]

\* resolve(v) or reject(v): only the first settles the promise
Settle(c, outcome, v) ==
    IF c.promise = "pending" THEN [c EXCEPT !.promise = outcome, !.value = v] ELSE c

\* worker.terminate(): a thread still alive is stopped and exits with code 1
Terminate(c) ==
    IF c.wpc = "exited"
    THEN [c EXCEPT !.terminated = @ + 1]
    ELSE [c EXCEPT !.terminated = @ + 1, !.wpc = "exited",
                   !.events = Append(@, ExitEvent(1))]

\* the variant of AllResolved that is satisfied by the first resolved promise
SomeResolved(cs) == \E j \in 1..Len(cs) : cs[j].promise = "resolved"

\* Promise.all(promises) resolves: every promise is resolved
AllResolved(cs) == \A j \in 1..Len(cs) : cs[j].promise = "resolved"

\* Promise.all(promises) rejects: one promise is rejected
SomeRejected(cs) == \E j \in 1..Len(cs) : cs[j].promise = "rejected"

InitShared ==
    /\ sharedArray = <<>>
    /\ initialArray = <<>>
    /\ demo = [kind |-> "none", phase |-> "nobuffer", operation |-> "none"]
    /\ calls = <<>>
    /\ storeLog = {}
    /\ accessLog = {}

\* sharedMemoryDemo, lines 633-643: a new buffer, filled
CreateSharedBuffer(arr) ==
    /\ demo.phase = "nobuffer"
    /\ sharedArray' = arr
    /\ initialArray' = arr
    /\ demo' = [demo EXCEPT !.phase = "ready"]
    /\ UNCHANGED <<calls, storeLog, accessLog>>
    /\ UNCHANGED notShared

\* parallelProcessing(sharedArray, bufferSize) up to its await of
\* Promise.all: one runInWorker call per range
ParallelProcessing(workerCount, operation) ==
    /\ demo.phase = "ready"
    /\ calls' = [j \in 1..workerCount |->
                    NewCall(ProcessData(j - 1, Len(sharedArray), workerCount, operation))]
    /\ demo' = [kind |-> "parallel", phase |-> "joining", operation |-> operation]
    /\ UNCHANGED <<sharedArray, initialArray, storeLog, accessLog>>
    /\ UNCHANGED notShared

\* concurrentUpdates(sharedArray, bufferSize) up to its await of Promise.all
ConcurrentUpdates(workerCount, updateCount) ==
    /\ demo.phase = "ready"
    /\ Len(sharedArray) <= MaxUpdLen
    /\ calls' = [j \in 1..workerCount |-> NewCall(UpdateData(j - 1, updateCount, workerCount))]
    /\ demo' = [kind |-> "update", phase |-> "joining", operation |-> "none"]
    /\ UNCHANGED <<sharedArray, initialArray, storeLog, accessLog>>
    /\ UNCHANGED notShared

\* cpu-worker.js, processSharedMemory: one iteration of the loop
WorkerProcessElement(j) ==
    /\ calls[j].wpc = "running"
    /\ calls[j].data.type = "shared-memory-process"
    /\ calls[j].data.operation \in SupportedOperations
    /\ calls[j].pos < calls[j].data.endIndex
    /\ sharedArray' = [sharedArray EXCEPT ![calls[j].pos + 1] =
                          ApplyOperation(calls[j].data.operation, @)]
    /\ accessLog' = accessLog \cup {<<j, calls[j].pos>>}
    /\ calls' = [calls EXCEPT ![j].pos = @ + 1]
    /\ UNCHANGED <<initialArray, demo, storeLog>>
    /\ UNCHANGED notShared

\* cpu-worker.js, updateSharedMemory: one iteration of the loop
WorkerStore(j, randomIndex, randomValue) ==
    /\ calls[j].wpc = "running"
    /\ calls[j].data.type = "shared-memory-update"
    /\ calls[j].pos < calls[j].data.updateCount
    /\ randomIndex < Len(sharedArray)
    /\ sharedArray' = AtomicsStore(sharedArray, randomIndex, randomValue)
    /\ storeLog' = storeLog \cup {<<randomIndex, randomValue>>}
    /\ calls' = [calls EXCEPT ![j].pos = @ + 1]
    /\ UNCHANGED <<initialArray, demo, accessLog>>
    /\ UNCHANGED notShared

\* cpu-worker.js, line 27: parentPort.postMessage(result)
WorkerPostsResult(j) ==
    /\ calls[j].wpc = "running"
    /\ ~WorkerRaises(calls[j])
    /\ LoopDone(calls[j])
    /\ calls' = [calls EXCEPT ![j].wpc = "posted",
                              ![j].events = Append(@, Message(FALSE, Performed(calls[j])))]
    /\ UNCHANGED <<sharedArray, initialArray, demo, storeLog, accessLog>>
    /\ UNCHANGED notShared

\* cpu-worker.js, lines 28-30: the catch posts { error: error.message }
WorkerPostsError(j) ==
    /\ calls[j].wpc = "running"
    /\ WorkerRaises(calls[j])
    /\ calls' = [calls EXCEPT ![j].wpc = "posted",
                              ![j].events = Append(@, Message(TRUE, 0))]
    /\ UNCHANGED <<sharedArray, initialArray, demo, storeLog, accessLog>>
    /\ UNCHANGED notShared

\* the thread has run cpu-worker.js to its end and holds no handle: it exits
\* with code 0
WorkerExits(j) ==
    /\ calls[j].wpc = "posted"
    /\ calls' = [calls EXCEPT ![j].wpc = "exited", ![j].events = Append(@, ExitEvent(0))]
    /\ UNCHANGED <<sharedArray, initialArray, demo, storeLog, accessLog>>
    /\ UNCHANGED notShared

\* the thread dies of an error no catch of cpu-worker.js sees (out of
\* memory): the Worker emits 'error', then 'exit' with code 1
WorkerDies(j) ==
    /\ calls[j].wpc = "running"
    /\ calls' = [calls EXCEPT ![j].wpc = "exited",
                              ![j].events = @ \o <<ErrorEvent, ExitEvent(1)>>]
    /\ UNCHANGED <<sharedArray, initialArray, demo, storeLog, accessLog>>
    /\ UNCHANGED notShared

\* runInWorker, lines 837-840: worker.on('message')
OnWorkerMessage(j) ==
    /\ calls[j].events # <<>>
    /\ Head(calls[j].events).ev = "message"
    /\ calls' = [calls EXCEPT ![j] =
           Terminate(Settle([@ EXCEPT !.events = Tail(@)], "resolved", Head(calls[j].events)))]
    /\ UNCHANGED <<sharedArray, initialArray, demo, storeLog, accessLog>>
    /\ UNCHANGED notShared

\* runInWorker, lines 842-845: worker.on('error')
OnWorkerError(j) ==
    /\ calls[j].events # <<>>
    /\ Head(calls[j].events).ev = "error"
    /\ calls' = [calls EXCEPT ![j] =
           Terminate(Settle([@ EXCEPT !.events = Tail(@)], "rejected", Head(calls[j].events)))]
    /\ UNCHANGED <<sharedArray, initialArray, demo, storeLog, accessLog>>
    /\ UNCHANGED notShared

\* runInWorker, lines 847-851: worker.on('exit')
OnWorkerExit(j) ==
    /\ calls[j].events # <<>>
    /\ Head(calls[j].events).ev = "exit"
    /\ LET code == Head(calls[j].events).code
           c == [calls[j] EXCEPT !.events = Tail(@), !.exitSeen = code]
       IN  calls' = [calls EXCEPT ![j] =
               IF code # 0 THEN Settle(c, "rejected", Head(calls[j].events)) ELSE c]
    /\ UNCHANGED <<sharedArray, initialArray, demo, storeLog, accessLog>>
    /\ UNCHANGED notShared

\* the await of Promise.all(promises) continues: into the try (parallel:
\* the 10 ms delay is armed; update: completion is printed and the samples are
\* read) or into the catch, which prints the error
PromiseAllSettles ==
    /\ demo.phase = "joining"
    /\ \/ /\ SomeRejected(calls)
          /\ demo' = [demo EXCEPT !.phase = "error"]
       \/ /\ ~SomeRejected(calls)
          /\ AllResolved(calls)
          /\ demo' = [demo EXCEPT !.phase = IF demo.kind = "parallel" THEN "delay"
                                            ELSE "completed"]
    /\ UNCHANGED <<sharedArray, initialArray, calls, storeLog, accessLog>>
    /\ UNCHANGED notShared

\* parallelProcessing, line 707: setTimeout(resolve, 10) fires; completion is
\* printed and the buffer is read
DelayFires ==
    /\ demo.phase = "delay"
    /\ demo' = [demo EXCEPT !.phase = "completed"]
    /\ UNCHANGED <<sharedArray, initialArray, calls, storeLog, accessLog>>
    /\ UNCHANGED notShared

----------------------------------------------------------------------------
(* EventLoopMonitor: infiniteLoop, checkUserInput and readline's question *)

\* the lines the user may enter
LoopLines == {"stop", " STOP", "y", "n", ""}

\* input.trim().toLowerCase() / choice.toLowerCase(), on LoopLines
TrimLower(line) == IF line = " STOP" THEN "stop" ELSE line
ToLower(line) == IF line = " STOP" THEN " stop" ELSE line

\* a timer callback that forgets shouldStop = true
TimerLeavesFlag(flag) == flag

\* the callback of autoExitTimer (lines 232-234)
TimerSetsFlag(flag) == TRUE

\* a loop condition that never looks at shouldStop
LoopAlwaysContinues(flag) == TRUE

\* while (!shouldStop)
LoopContinues(flag) == ~flag

\* rl.question(prompt, cb): readline keeps one question callback; a question
\* asked while another is pending only prints the prompt, its callback is lost
Question(pending, owner) == IF pending = "none" THEN owner ELSE pending

InitLoop ==
    /\ ilpc = "menu"
    /\ shouldStop = FALSE
    /\ autoExitTimer = "none"
    /\ elapsed = 0
    /\ rlQuestion = "menu"
    /\ continuePrompt = "none"
    /\ chunksAfterStop = 0
    /\ rounds = 0

\* demonstrateBlocking's 'Press Enter to continue...' (line 159)
AskContinue ==
    /\ rlQuestion' = Question(rlQuestion, "continue")
    /\ continuePrompt' = IF rlQuestion = "none" THEN "pending" ELSE "dropped"

\* the user picks '5' at the menu and answers 'Are you sure?' with choice:
\* infiniteLoop up to its first await of setImmediate (lines 211-262), or to
\* its return when the answer is not 'y'
InfiniteLoop(choice) ==
    /\ ilpc = "menu"
    /\ rlQuestion = "menu"
    /\ rounds < MaxRounds
    /\ rounds' = rounds + 1
    /\ chunksAfterStop' = 0
    /\ shouldStop' = FALSE
    /\ IF ToLower(choice) = "y"
       THEN /\ autoExitTimer' = "armed"
            /\ rlQuestion' = Question("none", "checkUserInput")
            /\ elapsed' = 1
            /\ ilpc' = "yielded"
            /\ continuePrompt' = "none"
       ELSE /\ autoExitTimer' = "none"
            /\ elapsed' = 0
            /\ ilpc' = "returned"
            /\ rlQuestion' = Question("none", "continue")
            /\ continuePrompt' = "pending"
    /\ UNCHANGED notLoop

\* the callback of setImmediate resolves the await of line 262: the loop
\* tests shouldStop, and runs its next chunk or leaves (lines 255-271), after
\* which demonstrateBlocking asks to continue
ImmediateFires ==
    /\ ilpc = "yielded"
    /\ IF LoopContinues(shouldStop)
       THEN /\ elapsed' = Min(elapsed + 1, ChunksToTimeout)
            /\ chunksAfterStop' = IF shouldStop THEN Min(chunksAfterStop + 1, 2)
                                  ELSE chunksAfterStop
            /\ UNCHANGED <<ilpc, autoExitTimer, rlQuestion, continuePrompt>>
       ELSE /\ autoExitTimer' = IF autoExitTimer = "armed" THEN "cleared" ELSE autoExitTimer
            /\ ilpc' = "returned"
            /\ AskContinue
            /\ UNCHANGED <<elapsed, chunksAfterStop>>
    /\ UNCHANGED <<shouldStop, rounds>>
    /\ UNCHANGED notLoop

\* autoExitTimer is due and the loop has yielded: its callback runs
AutoExitFires ==
    /\ ilpc = "yielded"
    /\ autoExitTimer = "armed"
    /\ elapsed >= ChunksToTimeout
    /\ autoExitTimer' = "fired"
    /\ shouldStop' = TimerSetsFlag(shouldStop)
    /\ UNCHANGED <<ilpc, elapsed, rlQuestion, continuePrompt, chunksAfterStop, rounds>>
    /\ UNCHANGED notLoop

\* the user enters a line while the main thread is not in a chunk: readline
\* hands it to the pending question's callback, if there is one
UserEntersLine(line) ==
    /\ ilpc # "menu"
    /\ \/ /\ rlQuestion = "none"
          /\ UNCHANGED <<ilpc, shouldStop, rlQuestion, continuePrompt>>
       \/ /\ rlQuestion = "checkUserInput"
          /\ IF TrimLower(line) = "stop"
             THEN shouldStop' = TRUE /\ rlQuestion' = "none"
             ELSE UNCHANGED shouldStop /\ rlQuestion' = Question("none", "checkUserInput")
          /\ UNCHANGED <<ilpc, continuePrompt>>
       \/ /\ rlQuestion = "continue"
          /\ ilpc' = "menu"
          /\ rlQuestion' = Question("none", "menu")
          /\ continuePrompt' = "none"
          /\ UNCHANGED shouldStop
    /\ UNCHANGED <<autoExitTimer, elapsed, chunksAfterStop, rounds>>
    /\ UNCHANGED notLoop

----------------------------------------------------------------------------
(* experiments/worker-threads.js: runWithWorkerPool, handlePoolTask *)

\* the part of the call the 'message' listener and the executor work on
RunState ==
    [taskIndex |-> taskIndex, rwWorkers |-> rwWorkers, rwPosted |-> rwPosted]

\* lines 249-252 and 259-262: if a task is left, post the next one to worker w
AssignNext(R, ts, w) ==
    IF R.taskIndex < Len(ts)
    THEN [R EXCEPT !.taskIndex = @ + 1,
                   !.rwWorkers[w].inbox = Append(@, ts[R.taskIndex + 1]),
                   !.rwPosted = Append(@, ts[R.taskIndex + 1].id)]
    ELSE R

\* the promise executors of workers.map, run for the workers w..Len(workers)
RECURSIVE AssignInitial(_, _, _)
AssignInitial(R, ts, w) ==
    IF w > Len(R.rwWorkers) THEN R
    ELSE AssignInitial(AssignNext(R, ts, w), ts, w + 1)

\* insert m into a sequence sorted by id, after the elements with the same id
RECURSIVE InsertById(_, _)
InsertById(sorted, m) ==
    IF sorted = <<>> THEN <<m>>
    ELSE IF m.id < Head(sorted).id THEN <<m>> \o sorted
    ELSE <<Head(sorted)>> \o InsertById(Tail(sorted), m)

\* results.sort((a, b) => a.id - b.id)
RECURSIVE SortById(_)
SortById(res) ==
    IF res = <<>> THEN <<>>
    ELSE InsertById(SortById(SubSeq(res, 1, Len(res) - 1)), res[Len(res)])

InitRun ==
    /\ rwState = "none"
    /\ rwTasks = <<>>
    /\ taskIndex = 0
    /\ rwResults = <<>>
    /\ rwWorkers = <<>>
    /\ rwPosted = <<>>

\* runWithWorkerPool(tasks, numWorkers) up to its await of Promise.all; the
\* tasks have the ids 0..n-1, as demonstrateWorkerPool builds them
RunWithWorkerPool(n, numWorkers) ==
    /\ rwState = "none"
    /\ LET ts == [k \in 1..n |-> [id |-> k - 1]]
           created == [w \in 1..numWorkers |->
                          [inbox |-> <<>>, outbox |-> <<>>,
                           terminated |-> FALSE, resolved |-> FALSE]]
           R == AssignInitial([taskIndex |-> 0, rwWorkers |-> created, rwPosted |-> <<>>],
                              ts, 1)
       IN  /\ rwTasks' = ts
           /\ taskIndex' = R.taskIndex
           /\ rwWorkers' = R.rwWorkers
           /\ rwPosted' = R.rwPosted
    /\ rwState' = "running"
    /\ rwResults' = <<>>
    /\ UNCHANGED notRun

\* the worker's parentPort.on('message') (line 42): handlePoolTask posts
\* { id, result, duration }
HandlePoolTask(w) ==
    /\ ~rwWorkers[w].terminated
    /\ rwWorkers[w].inbox # <<>>
    /\ rwWorkers' = [rwWorkers EXCEPT
           ![w].inbox = Tail(@),
           ![w].outbox = Append(@, [id |-> Head(rwWorkers[w].inbox).id])]
    /\ UNCHANGED <<rwState, rwTasks, taskIndex, rwResults, rwPosted>>
    /\ UNCHANGED notRun

\* worker.on('message') of runWithWorkerPool (lines 244-254)
PoolWorkerMessage(w) ==
    /\ rwWorkers[w].outbox # <<>>
    /\ rwResults' = Append(rwResults, Head(rwWorkers[w].outbox))
    /\ LET received == [RunState EXCEPT !.rwWorkers[w].outbox = Tail(@)]
           R == IF taskIndex < Len(rwTasks)
                THEN AssignNext(received, rwTasks, w)
                ELSE [received EXCEPT !.rwWorkers[w].terminated = TRUE,
                                      !.rwWorkers[w].resolved = TRUE]
       IN  /\ taskIndex' = R.taskIndex
           /\ rwWorkers' = R.rwWorkers
           /\ rwPosted' = R.rwPosted
    /\ UNCHANGED <<rwState, rwTasks>>
    /\ UNCHANGED notRun

\* the await of Promise.all(promises) continues: the results are sorted and
\* returned (lines 265-266)
RunWithWorkerPoolReturns ==
    /\ rwState = "running"
    /\ \A w \in 1..Len(rwWorkers) : rwWorkers[w].resolved
    /\ rwState' = "returned"
    /\ rwResults' = SortById(rwResults)
    /\ UNCHANGED <<rwTasks, taskIndex, rwWorkers, rwPosted>>
    /\ UNCHANGED notRun

----------------------------------------------------------------------------
(* Specifications *)

Init == InitPool /\ InitMon /\ InitShared /\ InitLoop /\ InitRun

NextPool ==
    \/ \E size \in 1..MaxSize : InitializeWorkerPool(size)
    \/ \E size \in 1..MaxSize, created \in 0..(MaxSize - 1) :
           InitializeWorkerPoolThrows(size, created)
    \/ CleanupWorkerPool
    \/ \E ts \in TaskLists : ProcessTasksWithPool(ts)
    \/ PollFire
    \/ \E h \in 1..Len(units), rnd \in RandomDraws : WorkerOnMessage(h, rnd)
    \/ \E h \in 1..Len(units) : WorkerCrash(h)
    \/ \E h \in 1..Len(units) : MainOnMessage(h)
    \/ AwaitReturn

NextMon ==
    \/ StartMonitoring
    \/ \E k \in 1..Len(tickTimers), late \in {0, LateBy} : TickFire(k, late)
    \/ \E late \in {0, LateBy} : StopTimeout(late)
    \/ StartMonitoringReturn
    \/ \E line \in InputLines : UserTypes(line)

NextShared ==
    \/ \E arr \in SharedArrays : CreateSharedBuffer(arr)
    \/ \E workerCount \in 1..MaxWorkers, operation \in Operations :
           ParallelProcessing(workerCount, operation)
    \/ \E workerCount \in 1..MaxWorkers, updateCount \in 0..MaxUpdates :
           ConcurrentUpdates(workerCount, updateCount)
    \/ \E j \in 1..Len(calls) : WorkerProcessElement(j)
    \/ \E j \in 1..Len(calls), randomIndex \in 0..(MaxUpdLen - 1), randomValue \in RandomValues :
           WorkerStore(j, randomIndex, randomValue)
    \/ \E j \in 1..Len(calls) : WorkerPostsResult(j)
    \/ \E j \in 1..Len(calls) : WorkerPostsError(j)
    \/ \E j \in 1..Len(calls) : WorkerExits(j)
    \/ \E j \in 1..Len(calls) : WorkerDies(j)
    \/ \E j \in 1..Len(calls) : OnWorkerMessage(j)
    \/ \E j \in 1..Len(calls) : OnWorkerError(j)
    \/ \E j \in 1..Len(calls) : OnWorkerExit(j)
    \/ PromiseAllSettles
    \/ DelayFires

NextLoop ==
    \/ \E choice \in LoopLines : InfiniteLoop(choice)
    \/ ImmediateFires
    \/ AutoExitFires
    \/ \E line \in LoopLines : UserEntersLine(line)

NextRun ==
    \/ \E n \in 0..MaxTasks, numWorkers \in 1..MaxRunWorkers : RunWithWorkerPool(n, numWorkers)
    \/ \E w \in 1..Len(rwWorkers) : HandlePoolTask(w)
    \/ \E w \in 1..Len(rwWorkers) : PoolWorkerMessage(w)
    \/ RunWithWorkerPoolReturns

\* the worker pool
SpecPool == Init /\ [][NextPool]_vars

\* the lag monitor
SpecMon == Init /\ [][NextMon]_vars

\* the shared memory demo
SpecShared == Init /\ [][NextShared]_vars

\* the interruptible loop of demonstrateBlocking
SpecLoop == Init /\ [][NextLoop]_vars

\* the interruptible loop, with the event loop's guarantee that a pending
\* setImmediate callback and a due timer run. Nothing obliges the user to type.
FairSpecLoop ==
    /\ SpecLoop
    /\ WF_vars(ImmediateFires)
    /\ WF_vars(AutoExitFires)

\* runWithWorkerPool of the worker threads experiment
SpecRun == Init /\ [][NextRun]_vars

\* the worker pool, with the scheduling the runtimes guarantee: an armed timer
\* fires, a live worker handles a posted task, a posted reply is delivered and
\* an await of a settled promise continues. Nothing obliges a worker to die.
FairSpecPool ==
    /\ SpecPool
    /\ WF_vars(PollFire)
    /\ WF_vars(\E h \in 1..Len(units), rnd \in RandomDraws : WorkerOnMessage(h, rnd))
    /\ WF_vars(\E h \in 1..Len(units) : MainOnMessage(h))
    /\ WF_vars(AwaitReturn)

\* the lag monitor, with the event loop's guarantee that an armed timer fires
\* and that an await of a resolved promise continues. Nothing obliges the user
\* to start a session or to type.
FairSpecMon ==
    /\ SpecMon
    /\ WF_vars(\E k \in 1..Len(tickTimers), late \in {0, LateBy} : TickFire(k, late))
    /\ WF_vars(\E late \in {0, LateBy} : StopTimeout(late))
    /\ WF_vars(StartMonitoringReturn)

----------------------------------------------------------------------------
(* Claims about the worker pool *)

\* the ids of a batch are a permutation of 0..N-1
IsPermutation(ts) == {ts[k].id : k \in 1..Len(ts)} = 0..(Len(ts) - 1)

\* tasks posted to Worker h whose reply the main thread has not received
Outstanding(h) == Len(units[h].inbox) + Len(units[h].outbox)

\* C1: when processTasksWithPool resolves a batch whose ids are a permutation
\* of 0..N-1, the element at index id of the resolved array is a reply the
\* worker produced for the task with that id, whatever the pool and the order
\* and latency of the workers' steps.
C1_ResultAtIdIndex ==
    (callState = "resolved" /\ IsPermutation(tasks)) =>
        /\ Len(results) = Len(tasks)
        /\ \A k \in 1..Len(tasks) :
              \E rnd \in RandomDraws : results[tasks[k].id + 1] = WorkerReply(tasks[k], rnd)

\* a resolved batch of three tasks on two workers whose ids are not in submission order
C1_Witness ==
    /\ callState = "resolved"
    /\ Len(workerPool) = 2
    /\ Len(tasks) = 3
    /\ IsPermutation(tasks)
    /\ tasks[1].id = 2 /\ tasks[2].id = 0
    /\ results[1] = WorkerReply(tasks[2], 1)

C3_FailFastRejects ==
    callState = "resolved" =>
        \A k \in 1..Len(tasks) : \A rnd \in RandomDraws : ~processTask(tasks[k], rnd).threw

\* C4: every pooled worker has at most one posted task whose reply has not
\* been received, one listener at most waits for it, and its busy flag is true
\* exactly while that task is outstanding.
C4_WorkerExclusivity ==
    \A i \in 1..Len(workerPool) :
        LET h == workerPool[i].worker
        IN  /\ Outstanding(h) <= 1
            /\ Len(units[h].listeners) = Outstanding(h)
            /\ workerPool[i].busy <=> (Outstanding(h) = 1)

\* a worker holds a task while a second task waits and a second worker is idle
C4_Witness ==
    /\ callState = "running"
    /\ pendingTasks # <<>>
    /\ Len(workerPool) = 2
    /\ workerPool[1].busy /\ Outstanding(workerPool[1].worker) = 1
    /\ ~workerPool[2].busy

\* C5: processTasksWithPool never hangs: a call in flight on a pool of at least
\* one worker eventually settles, whether the workers reply or die.
C5_AlwaysSettles ==
    (callState = "running" /\ Len(workerPool) >= 1) ~> (callState = "resolved")

\* C6: while tasks are pending, every idle worker has been given one: no
\* worker of the pool is idle while the call still holds a pending task.
C6_DispatchesToEveryIdleWorker ==
    (callState = "running" /\ pendingTasks # <<>>) =>
        \A i \in 1..Len(workerPool) : workerPool[i].busy

----------------------------------------------------------------------------
(* Claims about the lag monitor *)

\* C7: after n ticks lagHistory is the last min(n, 100) computed lags in tick
\* order; it never holds more than 100 samples.
C7_LagWindow ==
    LET n == Len(allLags)
    IN  /\ Len(lagHistory) <= HistoryCap
        /\ lagHistory = SubSeq(allLags, n - Min(n, HistoryCap) + 1, n)

\* the 101st tick has run: the window is full and the 1st sample is gone
C7_Witness ==
    /\ Len(allLags) = HistoryCap + 1
    /\ Len(lagHistory) = HistoryCap
    /\ lagHistory[1] = allLags[2]
    /\ allLags[1] # allLags[2]

\* C8: every session that waits for its stop ends: it leads to startMonitoring
\* having returned with monitoring false.
C8_TimeoutTerminates == (mpc = "waiting") ~> (mpc = "idle" /\ ~monitoring)

\* a session has ended by its timeout, the user having typed nothing
C8_Witness ==
    /\ sessions = 1
    /\ mpc = "idle"
    /\ ~monitoring
    /\ ~typedStop
    /\ stopTimer = NoTimer
    /\ now >= startTime + MaxDuration

\* C9: once the user has typed "stop" during a session, monitoring is false.
C9_StopSignalEndsSession == typedStop => ~monitoring

\* C10: monitoring becomes true only when a session starts, and a session
\* starts only with monitoring false, so within a session the flag goes from
\* true to false once and never back; the stop that startMonitoring performs
\* after the timeout already stopped the session finds monitoring false, leaves
\* it false and changes nothing else of the monitor.
C10_RunningFlipsOnce ==
    [][ /\ (~monitoring /\ monitoring') => sessions' = sessions + 1
        /\ (sessions' # sessions) => (~monitoring /\ monitoring')
        /\ (mpc = "resolved" /\ mpc' = "idle") =>
              /\ ~monitoring /\ ~monitoring'
              /\ UNCHANGED <<startTime, lastCheck, lagHistory, tickTimers, stopTimer,
                             intervals, sessions, allLags>>
      ]_vars

\* two sessions have run and stopped
C10_Witness ==
    /\ sessions = 2
    /\ mpc = "idle"
    /\ ~monitoring

\* C15: however a pool run ends (cleanupWorkerPool has run, or
\* initializeWorkerPool threw), every unit created is terminated and
\* workerPool is empty
C15_TeardownOnEveryExit ==
    poolExit # "none" =>
        /\ workerPool = <<>>
        /\ \A h \in 1..Len(units) : ~units[h].alive

\* C17: for a batch with ids unique within the batch, the k-th element of the
\* resolved array is the reply to the k-th submitted task
C17_OutputInSubmissionOrder ==
    callState = "resolved" =>
        /\ Len(results) = Len(tasks)
        /\ \A k \in 1..Len(tasks) :
               \E rnd \in RandomDraws : results[k] = WorkerReply(tasks[k], rnd)

----------------------------------------------------------------------------
(* Claims about the lag monitor's sessions *)

\* C11: once a session has stopped, no recurring schedule it created is
\* armed: no tick timer, no interval of startBackgroundTasks
C11_NoOrphanedTimers ==
    (mpc = "idle" /\ sessions >= 1) => (tickTimers = <<>> /\ intervals = 0)

\* C16: a session starts with an empty lag history: after startMonitoring
\* has run its first tick, the history holds that one sample
C16_SessionStartsEmpty ==
    [][sessions' # sessions => Len(lagHistory') = 1]_vars

----------------------------------------------------------------------------
(* Claims about the shared memory demo *)

\* x is the square of v, as an integer
IsSquareOf(x, v) == Abs(v) <= MaxRoot /\ x = v * v

\* the calls whose range [startIndex, endIndex) holds index i
Covering(i) ==
    {j \in 1..Len(calls) : calls[j].data.startIndex <= i /\ i < calls[j].data.endIndex}

\* C12: the ranges given to the workers of parallelProcessing are
\* contiguous from 0 to the buffer's length, and every index of the buffer is
\* in exactly one of them
C12_Partition ==
    demo.kind = "parallel" =>
        /\ calls[1].data.startIndex = 0
        /\ calls[Len(calls)].data.endIndex = Len(sharedArray)
        /\ \A j \in 1..Len(calls) : calls[j].data.startIndex <= calls[j].data.endIndex
        /\ \A j \in 1..(Len(calls) - 1) :
               calls[j + 1].data.startIndex = calls[j].data.endIndex
        /\ \A i \in 0..(Len(sharedArray) - 1) : Cardinality(Covering(i)) = 1

\* a buffer whose length the worker count does not divide, so that the last
\* range takes a remainder
C12_Witness ==
    /\ demo.kind = "parallel"
    /\ Len(calls) = 2
    /\ Len(sharedArray) = 3
    /\ calls[2].data.endIndex - calls[2].data.startIndex = 2

\* C13: when parallelProcessing with operation "square" has completed, every
\* element holds the square of the value it held before the call
C13_SquaresEveryElement ==
    (demo.kind = "parallel" /\ demo.operation = "square" /\ demo.phase = "completed") =>
        \A i \in 1..Len(sharedArray) : IsSquareOf(sharedArray[i], initialArray[i])

C18_JoinAll ==
    demo.phase \in {"delay", "completed"} =>
        \A j \in 1..Len(calls) :
            calls[j].wpc # "running" /\ calls[j].promise = "resolved"

\* an operation of two workers, each with work done, has completed
C18_Witness ==
    /\ demo.phase = "completed"
    /\ Len(calls) = 2
    /\ \A j \in 1..2 : calls[j].value.count >= 1

\* C19: a runInWorker call settles once, from the first event its Worker
\* delivers, the handler that settles it terminates the Worker (once), and no
\* later event changes the outcome
C19_OneShot ==
    [][\A j \in 1..Len(calls) :
           Len(calls') = Len(calls) =>
               /\ calls[j].promise # "pending" =>
                      /\ calls'[j].promise = calls[j].promise
                      /\ calls'[j].value = calls[j].value
               /\ calls'[j].promise # "pending" =>
                      /\ calls'[j].value.ev \in {"message", "error"}
                      /\ calls'[j].terminated = 1
                      /\ calls'[j].wpc = "exited"]_vars

\* a call resolved by its worker's message whose 'exit' listener has since
\* run with the exit code of the termination
C19_Witness ==
    \E j \in 1..Len(calls) :
        /\ calls[j].promise = "resolved"
        /\ calls[j].exitSeen = 1
        /\ calls[j].terminated = 1

\* C20: a failure raised in the worker rejects the runInWorker promise, and
\* parallelProcessing does not report completion after one
C20_WorkerFailureRejects ==
    /\ \A j \in 1..Len(calls) :
           (calls[j].promise # "pending" /\ calls[j].value.failed) =>
               calls[j].promise = "rejected"
    /\ demo.phase \in {"delay", "completed"} =>
           \A j \in 1..Len(calls) : ~calls[j].value.failed

----------------------------------------------------------------------------
(* Claims about the lag monitor's ticks *)

\* C21: a tick run by the timer records lag = now - (lastTick + interval),
\* with the interval its next tick is armed with
C21_LagAgainstArmedInterval ==
    [][(Len(allLags') = Len(allLags) + 1 /\ sessions' = sessions) =>
           report'.lag = now' - (lastCheck + TickInterval)]_vars

C28_OneTickTimer == Len(tickTimers) <= 1

----------------------------------------------------------------------------
(* Claims about the worker pool's dispatch and initialization *)

\* C23: the tasks posted to workers so far are the first tasks of the batch,
\* in submission order
C23_FifoDispatch ==
    callState # "none" =>
        /\ Len(dispatchLog) <= Len(tasks)
        /\ \A k \in 1..Len(dispatchLog) : dispatchLog[k] = tasks[k]

\* a batch of three whose ids are not in submission order, all dispatched on
\* a pool of two workers
C23_Witness ==
    /\ callState = "resolved"
    /\ Len(workerPool) = 2
    /\ Len(dispatchLog) = 3
    /\ tasks[1].id > tasks[2].id
    /\ writeLog = <<tasks[1].id, tasks[2].id, tasks[3].id>>

\* C24: when initializeWorkerPool(size) returns, workerPool holds exactly
\* size entries, all idle, with ids 0..size-1
C24_InitGivesExactlySize ==
    [][\A size \in 1..MaxSize :
           InitializeWorkerPool(size) =>
               /\ Len(workerPool') = size
               /\ \A i \in 1..size : ~workerPool'[i].busy /\ workerPool'[i].id = i - 1]_vars

----------------------------------------------------------------------------
(* Claims about the workers' ranges *)

\* C25: a shared-memory-process worker touches only indices of its own
\* range, every step of it leaves all other elements as they were, and no
\* index is touched by two workers
C25_RangeDiscipline ==
    [][demo'.kind = "parallel" =>
           /\ \A a \in accessLog' :
                  /\ calls'[a[1]].data.startIndex <= a[2]
                  /\ a[2] < calls'[a[1]].data.endIndex
                  /\ \A b \in accessLog' : b[2] = a[2] => b[1] = a[1]
           /\ \A a \in accessLog' \ accessLog :
                  \A i \in 1..Len(sharedArray) :
                      i # a[2] + 1 => sharedArray'[i] = sharedArray[i]
           /\ accessLog' = accessLog => sharedArray' = sharedArray]_vars

\* two workers have each worked through a range of their own
C25_Witness ==
    /\ demo.kind = "parallel"
    /\ demo.phase = "completed"
    /\ Len(calls) = 2
    /\ \A j \in 1..2 : \E a \in accessLog : a[1] = j
    /\ sharedArray # initialArray

----------------------------------------------------------------------------
(* Claims about the interruptible loop *)

\* C26: after shouldStop has been set, at most one further chunk starts
\* before the loop is left
C26_StopWithinOneChunk == chunksAfterStop <= 1

\* the loop was stopped by the user's "stop" before the timeout and has been
\* left
C26_Witness ==
    /\ ilpc = "returned"
    /\ shouldStop
    /\ autoExitTimer = "cleared"
    /\ elapsed < ChunksToTimeout

\* C27: a running loop is always left, with the timeout timer no longer armed
C27_LoopTerminates ==
    (ilpc = "yielded") ~> (ilpc = "returned" /\ autoExitTimer # "armed")

\* the loop was left by the timeout; the user has not typed "stop"
C27_Witness ==
    /\ ilpc = "returned"
    /\ autoExitTimer = "fired"
    /\ rlQuestion = "checkUserInput"

\* C29: when infiniteLoop has returned, no question of checkUserInput is
\* pending, and the 'Press Enter' question of demonstrateBlocking is the one
\* that receives the next line
C29_NoQuestionLeftBehind ==
    ilpc = "returned" => (rlQuestion = "continue" /\ continuePrompt = "pending")

----------------------------------------------------------------------------
(* Claims about runWithWorkerPool *)

\* C30: a runWithWorkerPool call in progress can always go on (a task is
\* with a worker or a reply is on its way, or Promise.all is ready to
\* continue), and when it has returned every task was posted exactly once,
\* the results are the N replies in id order and every worker is terminated
C30_ResolvesWithAllResults ==
    /\ rwState = "running" =>
           \/ \E w \in 1..Len(rwWorkers) :
                  rwWorkers[w].inbox # <<>> \/ rwWorkers[w].outbox # <<>>
           \/ \A w \in 1..Len(rwWorkers) : rwWorkers[w].resolved
    /\ rwState = "returned" =>
           /\ rwPosted = [k \in 1..Len(rwTasks) |-> k - 1]
           /\ rwResults = [k \in 1..Len(rwTasks) |-> [id |-> k - 1]]
           /\ \A w \in 1..Len(rwWorkers) : rwWorkers[w].terminated

====
